---- MODULE Spec2Model ----
(***************************************************************************)
(* The navix environment state-transition engine: Environment.step with    *)
(* its auto-reset, Environment._step, Environment.termination, and the     *)
(* reset of the two Room classes (environments/room.py Room.reset and      *)
(* environments/empty.py Room._reset).                                     *)
(*                                                                         *)
(* Positions are <<row, col>>, 0-based.  Rewards 0.0 and 1.0 are the       *)
(* integers 0 and 1.  A random-source token (a JAX PRNG key) is the path   *)
(* of split indices from a root seed: <<seed, i1, i2, ...>>.               *)
(***************************************************************************)
EXTENDS Integers, Sequences, FiniteSets, TLC

(* ------------------------------ bounds -------------------------------- *)

\* Largest height and width of a room.
MaxDim == 4
\* Largest max_steps of an environment.
MaxSteps == 3
\* Largest max_steps of the registered 5x5 preset.
PresetMaxSteps == 8
\* Root seeds are 0 .. MaxSeed.
MaxSeed == 1
\* Longest token path: caps the number of chained auto-resets.
MaxDepth == 4

(* --------------------------- components.py ---------------------------- *)

TRANSITION == 0
TRUNCATION == 1
TERMINATION == 2

\* The pocket value of a player that carries nothing.
EMPTY_POCKET_ID == -1
\* The grid value of a wall cell; 0 is floor.
WALL == -1
FLOOR == 0

\* Component.position default: "not placed".
Unplaced == <<-1, -1>>

\* Player(position): direction and pocket keep their class defaults.
Player(position) == [position |-> position, direction |-> 0, pocket |-> 0]

\* Player.create(position, direction, pocket) of the entities module.
Player_create(position, direction, pocket) ==
    [position |-> position, direction |-> direction, pocket |-> pocket]

\* Goal(position): probability keeps its default 1.0.
Goal(position) == [position |-> position, probability |-> 1]

\* Pickable(): one unplaced item with id -1.
Pickable == [position |-> Unplaced, id |-> -1]

\* Consumable(): one unplaced item, no tool required, replaced by floor.
Consumable == [position |-> Unplaced, requires |-> -1, replacement |-> FLOOR]

\* State(key, grid, player, goals, keys, doors); the entity batches are
\* sequences of records.
State(key, grid, player, goals, keys, doors) ==
    [key |-> key, grid |-> grid, player |-> player,
     goals |-> goals, keys |-> keys, doors |-> doors]

\* Timestep(t, observation, action, reward, step_type, state); info is the
\* empty dict.
Timestep(t, observation, action, reward, step_type, state) ==
    [t |-> t, observation |-> observation, action |-> action,
     reward |-> reward, step_type |-> step_type, state |-> state,
     info |-> <<>>]

(* ------------------------- random-source tokens ----------------------- *)

\* jax.random.split(key, n): n child tokens, each the parent's path extended
\* by the child's index.
split(key, n) == [i \in 1..n |-> Append(key, i - 1)]

\* The pseudo-random integer a token yields: a deterministic mix of its path.
RECURSIVE bits(_)
bits(key) ==
    IF key = <<>> THEN 5
    ELSE (bits(SubSeq(key, 1, Len(key) - 1)) * 7 + key[Len(key)] + 3) % 1009

(* ------------------------------ grid ---------------------------------- *)

\* room(height, width): wall border, floor interior.
room(height, width) ==
    [p \in (0..(height - 1)) \X (0..(width - 1)) |->
        IF p[1] = 0 \/ p[1] = height - 1 \/ p[2] = 0 \/ p[2] = width - 1
        THEN WALL ELSE FLOOR]

\* Number of rows and columns of a grid.
Rows(grid) == Cardinality({p[1] : p \in DOMAIN grid})
Cols(grid) == Cardinality({p[2] : p \in DOMAIN grid})

\* The floor cells of a grid of the given number of columns, in row-major
\* order, from the i-th cell to the n-th.
RECURSIVE CellsFrom(_, _, _, _)
CellsFrom(grid, cols, i, n) ==
    IF i >= n THEN <<>>
    ELSE LET p == <<i \div cols, i % cols>>
         IN (IF grid[p] = FLOOR THEN <<p>> ELSE <<>>)
            \o CellsFrom(grid, cols, i + 1, n)

FloorCells(grid) == CellsFrom(grid, Cols(grid), 0, Rows(grid) * Cols(grid))

\* s without its i-th element.
Remove(s, i) == SubSeq(s, 1, i - 1) \o SubSeq(s, i + 1, Len(s))

\* n cells drawn from cells without replacement, steered by the integer r.
RECURSIVE DrawCells(_, _, _)
DrawCells(cells, r, n) ==
    IF n = 0 THEN <<>>
    ELSE LET i == (r % Len(cells)) + 1
         IN <<cells[i]>> \o DrawCells(Remove(cells, i), r \div Len(cells), n - 1)

\* random_positions(key, grid, n): n distinct floor cells.
random_positions(key, grid, n) == DrawCells(FloorCells(grid), bits(key), n)

\* random_directions(key, n=1): a heading in 0..3.
random_directions(key) == bits(key) % 4

(* ------------------------------ actions ------------------------------- *)

\* The cell displacement of each heading: 0 east, 1 south, 2 west, 3 north.
DIRECTIONS == <<(<<0, 1>>), (<<1, 0>>), (<<0, -1>>), (<<-1, 0>>)>>

\* The cell in front of the player.
front(state) ==
    LET d == DIRECTIONS[state.player.direction + 1]
    IN <<state.player.position[1] + d[1], state.player.position[2] + d[2]>>

\* A cell the player can enter: inside the grid and floor.
walkable(state, p) == p \in DOMAIN state.grid /\ state.grid[p] = FLOOR

noop(state) == state

rotate_ccw(state) ==
    [state EXCEPT !.player.direction = (state.player.direction + 3) % 4]

rotate_cw(state) ==
    [state EXCEPT !.player.direction = (state.player.direction + 1) % 4]

\* forward without the boundary and occupancy check.
forward_Unchecked(state) ==
    [state EXCEPT !.player.position = front(state)]

forward(state) ==
    IF walkable(state, front(state))
    THEN [state EXCEPT !.player.position = front(state)]
    ELSE state

\* pickup that pockets the item and leaves its id in the grid cell.
pickup_KeepsCell(state) ==
    LET p == front(state)
        hits == {i \in DOMAIN state.keys : state.keys[i].position = p}
    IN IF hits # {} /\ p \in DOMAIN state.grid
          /\ state.player.pocket = EMPTY_POCKET_ID
       THEN LET i == CHOOSE j \in hits : TRUE
            IN [state EXCEPT !.player.pocket = state.keys[i].id,
                             !.keys[i].position = Unplaced]
       ELSE state

\* Pick up the item in front when the pocket is empty: the item leaves the
\* grid and its id goes to the pocket.
pickup(state) ==
    LET p == front(state)
        hits == {i \in DOMAIN state.keys : state.keys[i].position = p}
    IN IF hits # {} /\ p \in DOMAIN state.grid
          /\ state.player.pocket = EMPTY_POCKET_ID
       THEN LET i == CHOOSE j \in hits : TRUE
            IN [state EXCEPT !.grid[p] = FLOOR,
                             !.player.pocket = state.keys[i].id,
                             !.keys[i].position = Unplaced]
       ELSE state

\* consume that does not look at the required tool.
consume_IgnoresTool(state) ==
    LET p == front(state)
        hits == {i \in DOMAIN state.doors : state.doors[i].position = p}
    IN IF hits # {} /\ p \in DOMAIN state.grid
       THEN LET i == CHOOSE j \in hits : TRUE
            IN [state EXCEPT !.grid[p] = state.doors[i].replacement,
                             !.doors[i].position = Unplaced]
       ELSE state

\* Consume the item in front when no tool is required or the pocket holds
\* the required tool: its cell takes the replacement value.
consume(state) ==
    LET p == front(state)
        hits == {i \in DOMAIN state.doors : state.doors[i].position = p}
    IN IF hits # {} /\ p \in DOMAIN state.grid
       THEN LET i == CHOOSE j \in hits : TRUE
            IN IF state.doors[i].requires = -1
                  \/ state.doors[i].requires = state.player.pocket
               THEN [state EXCEPT !.grid[p] = state.doors[i].replacement,
                                  !.doors[i].position = Unplaced]
               ELSE state
       ELSE state

\* The action table: the action id is the 0-based index.
DEFAULT_ACTIONS == <<"forward", "rotate_ccw", "rotate_cw", "pickup", "consume", "noop">>

\* The table function of the given name applied to a State.
apply(name, state) ==
    CASE name = "forward" -> forward(state)
      [] name = "rotate_ccw" -> rotate_ccw(state)
      [] name = "rotate_cw" -> rotate_cw(state)
      [] name = "pickup" -> pickup(state)
      [] name = "consume" -> consume(state)
      [] name = "noop" -> noop(state)

\* jax.lax.switch(index, branches, operand): an index out of bounds is
\* clamped to within bounds, then the branch at the index is applied.
switch(index, branches, operand) ==
    LET lo == 0
        hi == Len(branches) - 1
        clamped == IF index < lo THEN lo ELSE IF index > hi THEN hi ELSE index
    IN apply(branches[clamped + 1], operand)

(* -------------- reward, termination, observation functions ------------ *)

\* The player stands on a goal.
on_goal(state) ==
    \E i \in DOMAIN state.goals : state.goals[i].position = state.player.position

\* rewards.on_goal_reached
reward_on_goal_reached(prev_state, action, state) ==
    IF on_goal(state) THEN 1 ELSE 0

\* terminations.on_goal_reached, and the two constant predicates
termination_on_goal_reached(prev_state, action, state) == on_goal(state)

\* observations.symbolic: the grid with the player and the goals drawn in.
symbolic(state) ==
    [p \in DOMAIN state.grid |->
        IF p = state.player.position THEN 10 + state.player.direction
        ELSE IF \E i \in DOMAIN state.goals : state.goals[i].position = p THEN 2
        ELSE state.grid[p]]

\* check_truncation(terminated, truncated): termination takes priority.
check_truncation(terminated, truncated) ==
    IF terminated THEN TERMINATION
    ELSE IF truncated THEN TRUNCATION
    ELSE TRANSITION

(* --------------------------- environment.py --------------------------- *)

\* Environment.observation
observation(env, state) ==
    IF env.observation_fn = "symbolic" THEN symbolic(state) ELSE "None"

\* The configured reward_fn applied.
reward_fn(env, prev_state, action, state) ==
    reward_on_goal_reached(prev_state, action, state)

\* Environment.reward
reward(env, state, action, new_state) ==
    reward_fn(env, state, action, new_state)

\* The configured termination_fn applied.
termination_fn(env, prev_state, action, state) ==
    CASE env.termination_fn = "on_goal_reached" ->
            termination_on_goal_reached(prev_state, action, state)
      [] env.termination_fn = "always" -> TRUE
      [] env.termination_fn = "never" -> FALSE

\* truncated only once t has passed max_steps.
truncated_at_Strict(env, t) == t > env.max_steps

\* truncated = t >= self.max_steps
truncated_at(env, t) == t >= env.max_steps

\* Environment.termination with truncation given priority over termination.
termination_TruncationFirst(env, prev_state, action, state, t) ==
    LET terminated == termination_fn(env, prev_state, action, state)
        truncated == truncated_at(env, t)
    IN IF truncated THEN TRUNCATION
       ELSE IF terminated THEN TERMINATION
       ELSE TRANSITION

\* Environment.termination
termination(env, prev_state, action, state, t) ==
    LET terminated == termination_fn(env, prev_state, action, state)
        truncated == truncated_at(env, t)
    IN check_truncation(terminated, truncated)

(* ------------------------------- reset -------------------------------- *)

\* environments/room.py Room.reset
Room_reset(env, key) ==
    LET ks == split(key, 3)
        player == Player(<<0, 0>>)
        goal == Goal(<<env.width - 1, env.height - 1>>)
        grid == room(env.width, env.height)
        state == State(ks[1], grid, player, <<goal>>, <<Pickable>>, <<Consumable>>)
    IN Timestep(0, observation(env, state), 0, 0, 0, state)

\* Room._reset with the step type taken from the termination check of the
\* initial state instead of the constant 0.
Room__reset_ChecksTermination(env, key) ==
    LET ks == split(key, 3)
        grid == room(env.height, env.width)
        drawn == random_positions(ks[2], grid, 2)
        player_pos == IF env.random_start THEN drawn[1] ELSE <<1, 1>>
        goal_pos == IF env.random_start THEN drawn[2]
                    ELSE <<env.height - 2, env.width - 2>>
        direction == IF env.random_start THEN random_directions(ks[3]) ELSE 0
        player == Player_create(player_pos, direction, EMPTY_POCKET_ID)
        state == State(ks[1], grid, player, <<Goal(goal_pos)>>, <<>>, <<>>)
    IN Timestep(0, observation(env, state), 0, 0,
                termination(env, state, 0, state, 0), state)

\* Room._reset with the goal on the last row and column, as room.py places it.
Room__reset_GoalOnBorder(env, key) ==
    LET ks == split(key, 3)
        grid == room(env.height, env.width)
        drawn == random_positions(ks[2], grid, 2)
        player_pos == IF env.random_start THEN drawn[1] ELSE <<1, 1>>
        goal_pos == IF env.random_start THEN drawn[2]
                    ELSE <<env.height - 1, env.width - 1>>
        direction == IF env.random_start THEN random_directions(ks[3]) ELSE 0
        player == Player_create(player_pos, direction, EMPTY_POCKET_ID)
        state == State(ks[1], grid, player, <<Goal(goal_pos)>>, <<>>, <<>>)
    IN Timestep(0, observation(env, state), 0, 0, 0, state)

\* Room._reset that stores the token it was called with, not the child it
\* kept from the split.
Room__reset_KeepsSeed(env, key) ==
    LET ks == split(key, 3)
        grid == room(env.height, env.width)
        drawn == random_positions(ks[2], grid, 2)
        player_pos == IF env.random_start THEN drawn[1] ELSE <<1, 1>>
        goal_pos == IF env.random_start THEN drawn[2]
                    ELSE <<env.height - 2, env.width - 2>>
        direction == IF env.random_start THEN random_directions(ks[3]) ELSE 0
        player == Player_create(player_pos, direction, EMPTY_POCKET_ID)
        state == State(key, grid, player, <<Goal(goal_pos)>>, <<>>, <<>>)
    IN Timestep(0, observation(env, state), 0, 0, 0, state)

\* environments/empty.py Room._reset
Room__reset(env, key) ==
    LET ks == split(key, 3)
        k1 == ks[2]
        k2 == ks[3]
        grid == room(env.height, env.width)
        drawn == random_positions(k1, grid, 2)
        player_pos == IF env.random_start THEN drawn[1] ELSE <<1, 1>>
        goal_pos == IF env.random_start THEN drawn[2]
                    ELSE <<env.height - 2, env.width - 2>>
        direction == IF env.random_start THEN random_directions(k2) ELSE 0
        player == Player_create(player_pos, direction, EMPTY_POCKET_ID)
        goal == Goal(goal_pos)
        state == State(ks[1], grid, player, <<goal>>, <<>>, <<>>)
    IN Timestep(0, observation(env, state), 0, 0, 0, state)

\* self.reset(key): the reset of the environment's class.
reset(env, key) ==
    IF env.cls = "room.Room" THEN Room_reset(env, key) ELSE Room__reset(env, key)

(* -------------------------------- step -------------------------------- *)

\* Environment._step that never advances the step counter.
Env_step_FrozenCounter(env, timestep, action) ==
    LET state == switch(action, DEFAULT_ACTIONS, timestep.state)
    IN Timestep(timestep.t,
                observation(env, state),
                action,
                reward(env, timestep.state, action, state),
                termination(env, timestep.state, action, state, timestep.t),
                state)

\* Environment._step that passes the old counter to the termination check.
Env_step_StaleCounter(env, timestep, action) ==
    LET state == switch(action, DEFAULT_ACTIONS, timestep.state)
    IN Timestep(timestep.t + 1,
                observation(env, state),
                action,
                reward(env, timestep.state, action, state),
                termination(env, timestep.state, action, state, timestep.t),
                state)

\* Environment._step that observes the old state.
Env_step_StaleObservation(env, timestep, action) ==
    LET state == switch(action, DEFAULT_ACTIONS, timestep.state)
    IN Timestep(timestep.t + 1,
                observation(env, timestep.state),
                action,
                reward(env, timestep.state, action, state),
                termination(env, timestep.state, action, state, timestep.t + 1),
                state)

\* Environment._step
Env_step(env, timestep, action) ==
    LET state == switch(action, DEFAULT_ACTIONS, timestep.state)
    IN Timestep(timestep.t + 1,
                observation(env, state),
                action,
                reward(env, timestep.state, action, state),
                termination(env, timestep.state, action, state, timestep.t + 1),
                state)

\* Environment.step whose auto-reset records the supplied action.
step_RecordsAction(env, timestep, action) ==
    IF timestep.step_type > 0
    THEN [reset(env, timestep.state.key) EXCEPT !.action = action]
    ELSE Env_step(env, timestep, action)

\* Environment.step applying the action to the Timestep of the new episode.
step_ResetThenStep(env, timestep, action) ==
    IF timestep.step_type > 0
    THEN Env_step(env, reset(env, timestep.state.key), action)
    ELSE Env_step(env, timestep, action)

\* Environment.step
step(env, timestep, action) ==
    LET should_reset == timestep.step_type > 0
    IN IF should_reset
       THEN reset(env, timestep.state.key)
       ELSE Env_step(env, timestep, action)

(* ------------------- the unique observation id of Room ------------------ *)

\* Room.get_n_unique_states
get_n_unique_states(e) ==
    LET n_player_states == (e.height - 2) * (e.width - 2) * 4
        n_goal_states == (e.height - 2) * (e.width - 2)
    IN IF e.random_start
       THEN n_player_states * n_goal_states
       ELSE n_player_states

\* unique_id with the row index scaled by the number of interior rows.
unique_id_RowStride(e, state) ==
    LET full_width == Rows(state.grid)
        full_height == Cols(state.grid)
        width == full_width - 2
        height == full_height - 2
        n_player_states == width * height * 4
        g_position == state.goals[1].position
        g_index == (g_position[1] - 1) * width + (g_position[2] - 1)
        p_position == state.player.position
        p_index == (p_position[1] - 1) * width + (p_position[2] - 1)
    IN IF e.random_start
       THEN g_index * n_player_states + (p_index * 4 + state.player.direction)
       ELSE p_index * 4 + state.player.direction

\* unique_id of Room.get_unique_id_obs_fn.  grid.shape is (rows, columns):
\* the code's full_width is the number of rows and its full_height the
\* number of columns.
unique_id(e, state) ==
    LET full_width == Rows(state.grid)
        full_height == Cols(state.grid)
        width == full_width - 2
        height == full_height - 2
        n_player_states == width * height * 4
        g_position == state.goals[1].position
        g_index == (g_position[1] - 1) * height + (g_position[2] - 1)
        p_position == state.player.position
        p_index == (p_position[1] - 1) * height + (p_position[2] - 1)
    IN IF e.random_start
       THEN g_index * n_player_states + (p_index * 4 + state.player.direction)
       ELSE p_index * 4 + state.player.direction

(* ----------------------------- the machine ---------------------------- *)

\* env: the configured Environment.  ts: the Timestep the caller holds.
\* op: the call that produced ts.  seeds: the tokens reset was called with
\* since the caller's own reset, oldest first.
VARIABLES env, ts, op, seeds

vars == <<env, ts, op, seeds>>

Dims == 3..MaxDim

\* The action ids a caller may supply: the table's ids and one beyond each end.
ActionInputs == -1..Len(DEFAULT_ACTIONS)

\* The environments: any height, width, max_steps and termination_fn.  The
\* room.py Room has no random_start and keeps the default observation_fn
\* (lambda x: None); the empty.py Room observes with observations.symbolic,
\* as its registered presets do, and its random start draws two cells, so
\* it needs two floor cells.
Envs ==
    { e \in [cls : {"room.Room", "empty.Room"},
             height : Dims, width : Dims,
             max_steps : 1..MaxSteps,
             random_start : BOOLEAN,
             observation_fn : {"None", "symbolic"},
             termination_fn : {"on_goal_reached", "always", "never"}] :
        /\ (e.cls = "room.Room" => ~e.random_start /\ e.observation_fn = "None")
        /\ (e.cls = "empty.Room" => e.observation_fn = "symbolic")
        /\ (e.random_start => (e.height - 2) * (e.width - 2) >= 2) }

\* make("Navix-Empty-5x5-v0", max_steps=...): the registered preset.
PresetEnvs ==
    { [cls |-> "empty.Room", height |-> 5, width |-> 5, max_steps |-> m,
       random_start |-> FALSE, observation_fn |-> "symbolic",
       termination_fn |-> "on_goal_reached"] : m \in 1..PresetMaxSteps }

\* The state after construction and the caller's first reset.
Start(envs) ==
    /\ env \in envs
    /\ \E s \in 0..MaxSeed :
          /\ ts = reset(env, <<s>>)
          /\ seeds = << <<s>> >>
    /\ op = "reset"

Init == Start(Envs)

InitPreset == Start(PresetEnvs)

\* The caller calls reset(seed_token).
Reset ==
    \E s \in 0..MaxSeed :
       /\ ts' = reset(env, <<s>>)
       /\ seeds' = << <<s>> >>
       /\ op' = "reset"
       /\ UNCHANGED env

\* The caller calls step(timestep, action) with the Timestep it holds.
Step ==
    \E a \in ActionInputs :
       /\ Len(ts.state.key) < MaxDepth \/ ts.step_type = TRANSITION
       /\ ts' = step(env, ts, a)
       /\ op' = IF ts.step_type > 0 THEN "autoreset" ELSE "step"
       /\ seeds' = IF ts.step_type > 0 THEN Append(seeds, ts.state.key) ELSE seeds
       /\ UNCHANGED env

Next == Reset \/ Step

Spec == Init /\ [][Next]_vars

SpecPreset == InitPreset /\ [][Next]_vars

\* The agent loop: after the first reset the caller keeps calling step and
\* never calls reset itself.
LiveEnvs == { e \in Envs : e.height = 3 /\ e.width = MaxDim }

InitLive == Start(LiveEnvs)

SpecLive == InitLive /\ [][Step]_vars /\ WF_vars(Step)

(* ------------------- a room with a key and a door --------------------- *)

\* A corridor: three rows, so one row of floor cells between the walls.
EntityEnvs ==
    { [cls |-> "empty.Room", height |-> 3, width |-> MaxDim + 1,
       max_steps |-> MaxSteps, random_start |-> FALSE,
       observation_fn |-> "symbolic", termination_fn |-> "never"] }

\* The States of a room with the player, one key (item id 1, grid value 1)
\* and one door (grid value 2) on three different floor cells.  The pocket
\* is empty or holds another item (id 2); the door requires no tool, the
\* key, or the other item, and is replaced by floor or by an open door (3).
EntityStates(e) ==
    LET grid == room(e.height, e.width)
        cells == { p \in DOMAIN grid : grid[p] = FLOOR }
    IN { State(<<0, 0>>,
               [grid EXCEPT ![c[2]] = 1, ![c[3]] = 2],
               Player_create(c[1], d, pocket),
               <<>>,
               << [Pickable EXCEPT !.position = c[2], !.id = 1] >>,
               << [Consumable EXCEPT !.position = c[3], !.requires = rq,
                                     !.replacement = rp] >>) :
           c \in { x \in cells \X cells \X cells :
                     x[1] # x[2] /\ x[1] # x[3] /\ x[2] # x[3] },
           d \in 0..3,
           pocket \in {EMPTY_POCKET_ID, 2},
           rq \in {-1, 1, 2},
           rp \in {FLOOR, 3} }

\* The first Timestep of an episode in such a room.
InitEntities ==
    /\ env \in EntityEnvs
    /\ \E s \in EntityStates(env) :
          ts = Timestep(0, observation(env, s), 0, 0, TRANSITION, s)
    /\ seeds = << <<0>> >>
    /\ op = "reset"

\* The caller calls step with a table action while the episode runs.
Act ==
    \E a \in 0..(Len(DEFAULT_ACTIONS) - 1) :
       /\ ts.step_type = TRANSITION
       /\ ts' = step(env, ts, a)
       /\ op' = "step"
       /\ UNCHANGED <<env, seeds>>

SpecEntities == InitEntities /\ [][Act]_vars

(* ------------------------------ properties ---------------------------- *)

\* The valid action ids.
ValidActions == 0..(Len(DEFAULT_ACTIONS) - 1)

\* The root tokens a caller seeds reset with.
RootTokens == { <<s>> : s \in 0..MaxSeed }

\* C1: step on a Timestep whose step_type is not TRANSITION ignores the
\* supplied action: for every two actions the result is the same, it is the
\* Timestep reset returns for the token stored in the Timestep's State, and
\* it has t = 0; the Timestep an auto-reset produced is that reset result.
C1_AutoResetIgnoresAction ==
    /\ ts.step_type # TRANSITION =>
          LET results == { step(env, ts, a) : a \in ActionInputs }
          IN /\ \A x, y \in results : x = y
             /\ \A x \in results : x = reset(env, ts.state.key) /\ x.t = 0
    /\ op = "autoreset" =>
          /\ ts = reset(env, seeds[Len(seeds)])
          /\ ts.t = 0

\* An auto-reset happened: step was called on an ended Timestep.
C1_Witness ==
    /\ op = "autoreset"
    /\ ts.t = 0
    /\ Len(seeds) = 2

\* C2: the step_type of a non-reset step is decided by (terminated,
\* truncated) alone: TERMINATION when terminated (also when truncated too),
\* TRUNCATION when only truncated, TRANSITION when neither.
C2_StepTypeRule ==
    ts.step_type = TRANSITION =>
       \A a \in ActionInputs :
          LET n == step(env, ts, a)
              terminated == termination_fn(env, ts.state, a, n.state)
              truncated == truncated_at(env, n.t)
          IN /\ (terminated => n.step_type = TERMINATION)
             /\ (~terminated /\ truncated => n.step_type = TRUNCATION)
             /\ (~terminated /\ ~truncated => n.step_type = TRANSITION)

\* A step reached the goal on the very step the counter reached max_steps:
\* terminated and truncated both hold.
C2_Witness ==
    /\ op = "step"
    /\ env.termination_fn = "on_goal_reached"
    /\ on_goal(ts.state)
    /\ ts.t >= env.max_steps
    /\ ts.step_type = TERMINATION

\* C3: for a step from a TRANSITION Timestep with counter t, truncation is
\* signalled exactly when t + 1 >= max_steps: when termination_fn is false
\* the step_type is TRUNCATION if t + 1 >= max_steps and TRANSITION
\* otherwise, and TRUNCATION is never returned while t + 1 < max_steps.
C3_TruncationAtMaxSteps ==
    ts.step_type = TRANSITION =>
       \A a \in ActionInputs :
          LET n == step(env, ts, a)
              terminated == termination_fn(env, ts.state, a, n.state)
          IN /\ ~terminated =>
                   n.step_type = IF ts.t + 1 >= env.max_steps
                                 THEN TRUNCATION ELSE TRANSITION
             /\ n.step_type = TRUNCATION => ts.t + 1 >= env.max_steps

\* A step was truncated after at least one ordinary step.
C3_Witness ==
    /\ op = "step"
    /\ ts.step_type = TRUNCATION
    /\ ts.t = env.max_steps
    /\ ts.t >= 2

\* C4: for every seed token and every configuration, the Timestep reset
\* returns has t = 0, action = 0, reward = 0.0 and step_type TRANSITION.
C4_ResetTimestep ==
    /\ \A k \in RootTokens \cup {ts.state.key} :
          LET r == reset(env, k)
          IN /\ r.t = 0
             /\ r.action = 0
             /\ r.reward = 0
             /\ r.step_type = TRANSITION
    /\ op \in {"reset", "autoreset"} =>
          /\ ts.t = 0
          /\ ts.action = 0
          /\ ts.reward = 0
          /\ ts.step_type = TRANSITION

\* reset returned a Timestep of a random-start room after an episode ended.
C4_Witness ==
    /\ op = "autoreset"
    /\ env.random_start
    /\ ts.t = 0
    /\ ts.step_type = TRANSITION

\* C5: a step from a TRANSITION Timestep returns t = old.t + 1, the supplied
\* action, the table function of that action applied to the old state, the
\* reward reward_fn(old state, action, new state) and the observation
\* observation_fn(new state).
C5_StepAssembly ==
    ts.step_type = TRANSITION =>
       \A a \in ValidActions :
          LET n == step(env, ts, a)
              new == apply(DEFAULT_ACTIONS[a + 1], ts.state)
          IN /\ n.t = ts.t + 1
             /\ n.action = a
             /\ n.state = new
             /\ n.reward = reward_fn(env, ts.state, a, new)
             /\ n.observation = observation(env, new)

\* A step moved the player onto the goal and was rewarded.
C5_Witness ==
    /\ op = "step"
    /\ ts.t >= 2
    /\ ts.action = 0
    /\ ts.reward = 1
    /\ env.observation_fn = "symbolic"

\* C8, as claimed: a valid action id applies the table function at its
\* index, and step returns no Timestep for an action id outside the table.
C8_OutOfRangeFails ==
    /\ ts.step_type = TRANSITION =>
          \A a \in ValidActions :
             step(env, ts, a).state = apply(DEFAULT_ACTIONS[a + 1], ts.state)
    /\ op = "step" => ts.action \in ValidActions

\* The actions of the end-to-end scenario: 4 move forward, 1 turn right,
\* 2 move forward.
Scenario == <<0, 0, 0, 0, 2, 0, 0>>

\* The Timesteps step returns for a sequence of actions, in order.
RECURSIVE Run(_, _, _)
Run(e, timestep, actions) ==
    IF actions = <<>> THEN <<>>
    ELSE LET n == step(e, timestep, Head(actions))
         IN <<n>> \o Run(e, n, Tail(actions))

\* The fixed-start 5x5 room, freshly reset.
FreshFixed5x5 ==
    /\ env.cls = "empty.Room" /\ ~env.random_start
    /\ env.height = 5 /\ env.width = 5
    /\ env.termination_fn = "on_goal_reached"
    /\ op \in {"reset", "autoreset"}

\* The start the scenario names and the outcome it expects of the seven
\* Timesteps r that follow the fresh Timestep.
ScenarioOutcome(r) ==
    /\ ts.state.player.position = <<1, 1>>
    /\ ts.state.player.direction = 0
    /\ ts.state.goals[1].position = <<3, 3>>
    /\ \A i \in 1..6 : r[i].step_type = TRANSITION
    /\ r[7].step_type = TERMINATION
    /\ r[7].reward = 1
    /\ r[7].t = 7
    /\ on_goal(r[7].state)

\* C9, as claimed: in the fixed-start 5x5 room the scenario's first six
\* Timesteps are TRANSITION and the seventh is TERMINATION with reward 1.0,
\* t = 7 and the player on the goal, whatever max_steps is.
C9_ScenarioAnyMaxSteps ==
    FreshFixed5x5 => ScenarioOutcome(Run(env, ts, Scenario))

\* C9: in the fixed-start 5x5 room (player at (1,1) facing east, goal at
\* (3,3)) with max_steps >= 7, the scenario's first six Timesteps are
\* TRANSITION and the seventh is TERMINATION with reward 1.0, t = 7 and the
\* player on the goal.
C9_Scenario ==
    FreshFixed5x5 /\ env.max_steps >= 7 => ScenarioOutcome(Run(env, ts, Scenario))

\* The seventh step of an episode of the 5x5 room reached the goal.
C9_Witness ==
    /\ env.cls = "empty.Room" /\ ~env.random_start
    /\ env.height = 5 /\ env.width = 5
    /\ env.max_steps >= 7
    /\ op = "step"
    /\ ts.t = 7
    /\ ts.action = 0
    /\ ts.step_type = TERMINATION
    /\ ts.reward = 1
    /\ ts.state.player.position = <<3, 3>>

\* The tokens the resets of a chain consume: each seed is split once, and
\* the second and third child are each used for one placement draw.
Uses(chain) ==
    [i \in 1..(3 * Len(chain)) |->
        LET seed == chain[((i - 1) \div 3) + 1]
        IN IF (i - 1) % 3 = 0 THEN seed ELSE split(seed, 3)[((i - 1) % 3) + 1]]

\* C10: the auto-reset seeds the new episode with the token stored in the
\* previous Timestep's State; that token is the first child of the split of
\* the token the previous reset was called with, so it is neither that token
\* nor one of the two placement tokens, and along a chain of episodes no
\* token is consumed twice.
C10_TokenDiscipline ==
    /\ ts.state.key = split(seeds[Len(seeds)], 3)[1]
    /\ ts.state.key # seeds[Len(seeds)]
    /\ ts.state.key # split(seeds[Len(seeds)], 3)[2]
    /\ ts.state.key # split(seeds[Len(seeds)], 3)[3]
    /\ \A i \in 1..(Len(seeds) - 1) : seeds[i + 1] = split(seeds[i], 3)[1]
    /\ \A i, j \in DOMAIN Uses(seeds) :
          i # j => Uses(seeds)[i] # Uses(seeds)[j]
    /\ ts.step_type # TRANSITION =>
          \A a \in ActionInputs :
             step(env, ts, a).state.key = split(ts.state.key, 3)[1]

\* Two episodes in a row ended and were auto-reset.
C10_Witness ==
    /\ op = "autoreset"
    /\ Len(seeds) = 3
    /\ env.random_start

\* The State with the player turned to heading d.
Facing(state, d) == [state EXCEPT !.player.direction = d]

\* The cell in front of the player is a wall cell of the grid.
FacesWall(state) ==
    front(state) \in DOMAIN state.grid /\ state.grid[front(state)] = WALL

\* C11: for every reachable State and every heading, a move forward whose
\* target cell is a wall cell leaves the player's position and the Grid
\* unchanged, and step returns a Timestep for it (a no-op, not an error).
C11_WallNoOp ==
    \A d \in 0..3 :
       LET s == Facing(ts.state, d)
       IN FacesWall(s) =>
             /\ forward(s).player.position = s.player.position
             /\ forward(s).grid = s.grid
             /\ forward(s) = s
             /\ ts.step_type = TRANSITION =>
                   LET n == step(env, [ts EXCEPT !.state = s], 0)
                   IN /\ n.state.player.position = s.player.position
                      /\ n.state.grid = s.grid
                      /\ n.t = ts.t + 1

\* The first step of an episode moved forward against the wall of a room
\* three cells wide: the player is still on its start cell.
C11_Witness ==
    /\ env.cls = "empty.Room" /\ ~env.random_start
    /\ op = "step"
    /\ ts.t = 1
    /\ ts.action = 0
    /\ FacesWall(ts.state)
    /\ ts.state.player.position = <<1, 1>>

\* C12: consuming a Consumable in front of the player that requires a tool
\* the pocket does not hold leaves the State unchanged; with the required
\* tool in the pocket, or when requires = -1 (no tool needed), the
\* consumable's cell is set to replacement, the entity no longer occupies
\* the cell, and nothing else changes.
C12_ConsumeGating ==
    \A i \in DOMAIN ts.state.doors :
       LET s == ts.state
           door == s.doors[i]
           p == door.position
           n == consume(s)
       IN p = front(s) =>
             /\ (door.requires # -1 /\ door.requires # s.player.pocket) => n = s
             /\ (door.requires = -1 \/ door.requires = s.player.pocket) =>
                   /\ n.grid[p] = door.replacement
                   /\ \A j \in DOMAIN n.doors : n.doors[j].position # p
                   /\ [n EXCEPT !.grid[p] = s.grid[p], !.doors[i].position = p] = s
                   /\ (door.replacement = FLOOR => walkable(n, p))
             /\ ts.step_type = TRANSITION => step(env, ts, 4).state = n

\* The player picked up the key and then consumed the door that requires it.
C12_Witness ==
    /\ op = "step"
    /\ ts.action = 4
    /\ ts.state.player.pocket = 1
    /\ ts.state.doors[1].requires = 1
    /\ ts.state.doors[1].position = Unplaced

\* The number of cells of a grid that are not floor.
NonFloor(grid) == Cardinality({ p \in DOMAIN grid : grid[p] # FLOOR })

\* C13: a pickup of the item in front with an empty pocket makes the item's
\* cell floor, puts the item's id in the pocket and lowers the number of
\* non-floor cells by exactly one; with a full pocket it leaves the State
\* unchanged.
C13_PickupConsistency ==
    \A i \in DOMAIN ts.state.keys :
       LET s == ts.state
           item == s.keys[i]
           p == item.position
           n == pickup(s)
       IN p = front(s) =>
             /\ s.player.pocket = EMPTY_POCKET_ID =>
                   /\ n.grid[p] = FLOOR
                   /\ n.player.pocket = item.id
                   /\ NonFloor(n.grid) = NonFloor(s.grid) - 1
             /\ s.player.pocket # EMPTY_POCKET_ID => n = s
             /\ ts.step_type = TRANSITION => step(env, ts, 3).state = n

\* The first step of the episode picked the key up.
C13_Witness ==
    /\ op = "step"
    /\ ts.t = 1
    /\ ts.action = 3
    /\ ts.state.player.pocket = 1
    /\ ts.state.keys[1].position = Unplaced
    /\ NonFloor(ts.state.grid) = NonFloor(room(env.height, env.width)) + 1

\* C14, as claimed: the Grid of an environment configured with height h and
\* width w has h rows and w columns in every Timestep.
C14_GridShape ==
    /\ Rows(ts.state.grid) = env.height
    /\ Cols(ts.state.grid) = env.width

\* C15, as claimed: with a fixed start, reset places the player at (1,1)
\* with heading 0 and an empty pocket and the goal at (height-2, width-2),
\* both on interior floor cells of the room.
C15_FixedStart ==
    (op \in {"reset", "autoreset"} /\ ~env.random_start) =>
       LET player == ts.state.player
           goal == ts.state.goals[1]
           interior == { p \in DOMAIN ts.state.grid :
                           /\ 0 < p[1] /\ p[1] < env.height - 1
                           /\ 0 < p[2] /\ p[2] < env.width - 1 }
       IN /\ player.position = <<1, 1>>
          /\ player.direction = 0
          /\ player.pocket = EMPTY_POCKET_ID
          /\ goal.position = <<env.height - 2, env.width - 2>>
          /\ player.position \in interior
          /\ goal.position \in interior
          /\ ts.state.grid[player.position] = FLOOR
          /\ ts.state.grid[goal.position] = FLOOR

\* C20, as claimed: for every height and width of at least 3 and both start
\* modes, the State produced by reset has the player and the goal on
\* different cells.
C20_PlayerOffGoal ==
    op \in {"reset", "autoreset"} =>
       \A i \in DOMAIN ts.state.goals :
          ts.state.goals[i].position # ts.state.player.position

\* The States of an episode of the current environment that differ from
\* state in the player's cell and heading and, with a random start, in the
\* goal's cell.
Placements(state) ==
    LET interior == { p \in DOMAIN state.grid : state.grid[p] = FLOOR }
        goal_cells == IF env.random_start
                      THEN interior
                      ELSE {state.goals[1].position}
    IN { [state EXCEPT !.player.position = p,
                       !.player.direction = d,
                       !.goals[1].position = g] :
            <<p, d, g>> \in interior \X (0..3) \X goal_cells }

\* C16: in every Room, square or not, the unique observation id is
\* injective over the (player cell, heading, goal cell) combinations of the
\* room and lies in 0..get_n_unique_states()-1, as does the id of every
\* State the episode reaches.
C16_UniqueIdInjective ==
    env.cls = "empty.Room" =>
       LET states == Placements(ts.state)
           ids == { unique_id(env, s) : s \in states }
           n == get_n_unique_states(env)
       IN /\ Cardinality(ids) = Cardinality(states)
          /\ ids \subseteq 0..(n - 1)
          /\ unique_id(env, ts.state) \in 0..(n - 1)

\* A random-start Room with more rows than columns whose episode has moved
\* the player off the first interior cell while the goal is off it too.
C16_Witness ==
    /\ env.cls = "empty.Room"
    /\ env.random_start
    /\ env.height > env.width
    /\ op = "step"
    /\ unique_id(env, ts.state) >= (env.height - 2) * (env.width - 2) * 4 + 4

\* C17: with max_steps >= 1, every Timestep reset or step returns has
\* 0 <= t <= max_steps, and a Timestep with t = max_steps is never
\* TRANSITION.
C17_CounterBounded ==
    /\ 0 <= ts.t
    /\ ts.t <= env.max_steps
    /\ (ts.t = env.max_steps => ts.step_type # TRANSITION)

\* An episode that reaches the goal exactly on its last allowed step.
C17_Witness ==
    /\ op = "step"
    /\ env.max_steps >= 2
    /\ ts.t = env.max_steps
    /\ ts.step_type = TERMINATION
    /\ env.termination_fn = "on_goal_reached"

\* C18: a Timestep with step_type TRUNCATION or TERMINATION is always
\* followed by a Timestep with step_type TRANSITION, t = 0 and reward 0.0, so
\* two ended Timesteps are never consecutive and an episode signals its end
\* once.
C18_EndedThenFresh ==
    [][ts.step_type # TRANSITION =>
          /\ ts'.step_type = TRANSITION
          /\ ts'.t = 0
          /\ ts'.reward = 0]_vars

\* The second auto-reset of a run: two episodes have ended, each followed by
\* a fresh Timestep.
C18_Witness ==
    /\ op = "autoreset"
    /\ Len(seeds) = 3
    /\ ts.step_type = TRANSITION
    /\ ts.t = 0
    /\ ts.reward = 0

\* C19: every episode ends.  A step of a running episode advances t by one
\* and t never passes max_steps, where the Timestep is no longer TRANSITION,
\* so an episode ends within max_steps calls of step whatever the actions
\* and the termination_fn.  A caller that keeps calling step always reaches
\* the end of the running episode, the call after it starts a new episode,
\* and the run never rests on an ended Timestep while the token depth
\* explored allows another episode: ends of episodes keep occurring.
C19_EpisodesEnd ==
    /\ [][(ts.step_type = TRANSITION /\ ts' # ts) =>
             /\ ts'.t = ts.t + 1
             /\ ts'.t <= env.max_steps
             /\ (ts'.t = env.max_steps => ts'.step_type # TRANSITION)]_vars
    /\ [][(ts.step_type # TRANSITION /\ ts' # ts) =>
             (op' = "autoreset" /\ ts'.step_type = TRANSITION)]_vars
    /\ (ts.step_type = TRANSITION) ~> (ts.step_type # TRANSITION)
    /\ []<>(ts.step_type # TRANSITION)
    /\ []<>(ts.step_type = TRANSITION \/ Len(ts.state.key) >= MaxDepth)

\* The second episode of a run ended by the step cap alone, after max_steps
\* calls of step.
C19_Witness ==
    /\ op = "step"
    /\ Len(seeds) = 2
    /\ env.termination_fn = "never"
    /\ env.max_steps = MaxSteps
    /\ ts.t = env.max_steps
    /\ ts.step_type = TRUNCATION

====
